---- MODULE Spec2Model ----
(***************************************************************************)
(* TempAI retrieval-augmented question answering: the text chunker, the    *)
(* ingestion pipeline (VideoProcessor) and the answering engine (QAEngine) *)
(* over a per-video vector store.                                          *)
(*                                                                         *)
(* Strings are sequences of one-character strings; positions in the        *)
(* operators that model Python string methods are 0-based, as in Python.   *)
(***************************************************************************)
EXTENDS Integers, Sequences, FiniteSets, TLC

VARIABLES
    text,           \* _chunk_text: the text argument
    chunk_size,     \* _chunk_text: the chunk_size argument
    chunk_overlap,  \* _chunk_text: the chunk_overlap argument
    start,          \* _chunk_text: the local start
    chunks,         \* _chunk_text: the local list chunks
    cpc,            \* _chunk_text: "init" (not yet called), "loop", "done" (returned)
    covered,        \* history: the text positions that lie in an appended chunk
    spin,           \* history: flips at every iteration of the while loop
    store,          \* the vector store: collection name -> collection
    OLLAMA_AVAILABLE, \* qa_engine module flag: the ollama package was imported
    top_k,          \* QAEngine.top_k
    op,             \* the last public call and what its collaborators did
    outcome,        \* "none", "returned", "raised" or "hang" for that call
    result,         \* the value it returned (the failing call when it raised)
    calls,          \* the collaborator calls it made, in order
    query,          \* the store query it made: n_results and the rows returned
    ingested,       \* history: video_id -> chunk count reported by the successful
                    \* ingestion since the last deletion of that id, or 0
    deleted,        \* history: the video_ids whose collection a delete_video
                    \* removed and no process_video has touched since
    current_video_id, \* app: st.session_state.current_video_id
    chat_history    \* app: st.session_state.chat_history; each exchange carries,
                    \* as history, the video_id it was asked of

chunkVars == <<text, chunk_size, chunk_overlap, start, chunks, cpc, covered, spin>>

appVars == <<current_video_id, chat_history>>

sysVars == <<store, OLLAMA_AVAILABLE, top_k, op, outcome, result, calls, query, ingested, deleted>>

vars == <<text, chunk_size, chunk_overlap, start, chunks, cpc, covered, spin,
          store, OLLAMA_AVAILABLE, top_k, op, outcome, result, calls, query, ingested, deleted,
          current_video_id, chat_history>>

----------------------------------------------------------------------------
(* Bounds of the chunker model.                                            *)

MaxLen == 7

MaxChunkSize == 6

\* No returning run of the loop makes this many iterations: a run that
\* returns never visits a value of start twice, and start ranges over
\* -(chunk_overlap - 1) .. Len(text) - 1.
MaxChunks == MaxLen + MaxChunkSize

Alphabet == {"a", ".", " "}

RECURSIVE SeqsOfLen(_, _)
SeqsOfLen(S, n) ==
    IF n = 0 THEN {<<>>}
    ELSE {Append(s, c) : s \in SeqsOfLen(S, n - 1), c \in S}

Texts == UNION {SeqsOfLen(Alphabet, n) : n \in 0..MaxLen}

----------------------------------------------------------------------------
(* Python string primitives.                                               *)

SetMax(S) == CHOOSE x \in S : \A y \in S : y <= x

SetMin(S) == CHOOSE x \in S : \A y \in S : x <= y

Whitespace == {" ", "\n"}

\* A slice index as Python normalises it against a string of length n.
NormIndex(i, n) ==
    IF i < 0 THEN (IF n + i < 0 THEN 0 ELSE n + i)
    ELSE (IF i > n THEN n ELSE i)

\* s[lo:hi]
Slice(s, lo, hi) ==
    LET n == Len(s)
        a == NormIndex(lo, n)
        b == NormIndex(hi, n)
    IN  IF a >= b THEN <<>> ELSE SubSeq(s, a + 1, b)

\* s.rfind(sub, lo, hi): the highest index in s[lo:hi] at which sub begins
\* and lies wholly within the slice, else -1.
RFind(s, sub, lo, hi) ==
    LET n == Len(s)
        a == NormIndex(lo, n)
        b == NormIndex(hi, n)
        at == {i \in a..(b - Len(sub)) : SubSeq(s, i + 1, i + Len(sub)) = sub}
    IN  IF at = {} THEN -1 ELSE SetMax(at)

\* The 1-based positions of s that s.strip() keeps.
StripKeeps(s) ==
    LET ink == {i \in 1..Len(s) : s[i] \notin Whitespace}
    IN  IF ink = {} THEN {} ELSE SetMin(ink)..SetMax(ink)

\* s.strip()
\* Mutant: no strip.
StripNone(s) == s

Strip(s) ==
    LET keep == StripKeeps(s)
    IN  IF keep = {} THEN <<>> ELSE SubSeq(s, SetMin(keep), SetMax(keep))

----------------------------------------------------------------------------
(* VideoProcessor._chunk_text                                              *)

Separators == << <<".", " ">>, <<".", "\n">>, <<"!", " ">>, <<"?", "\n">>, <<"?", " ">> >>

\* Mutant: a window one character too long.
ChunkEndPastWindow(t, st, size) == st + size + 1

\* The value of end after the sentence search of one iteration.
ChunkEnd(t, st, size) ==
    LET end == st + size
        found == {k \in 1..Len(Separators) : RFind(t, Separators[k], st, end) # -1}
    IN  IF end < Len(t) /\ found # {}
        THEN RFind(t, Separators[SetMin(found)], st, end) + 1
        ELSE end

\* Mutant: the next start one character too far.
NextStartSkipping(t, end, overlap) ==
    IF end < Len(t) THEN end - overlap + 1 ELSE Len(t)

\* start = end - chunk_overlap if end < text_length else text_length
NextStart(t, end, overlap) ==
    IF end < Len(t) THEN end - overlap ELSE Len(t)

\* chunks after: chunk = text[start:end].strip(); if chunk: chunks.append(chunk)
AppendChunk(cs, t, st, end) ==
    LET chunk == Strip(Slice(t, st, end))
    IN  IF chunk # <<>> THEN Append(cs, chunk) ELSE cs

\* The text positions (0-based) of the chunk appended for text[start:end].
ChunkPositions(t, st, end) ==
    LET a == NormIndex(st, Len(t))
    IN  {a + i - 1 : i \in StripKeeps(Slice(t, st, end))}

\* The whole call as a function: the loop run from start = st. A value of
\* start met twice means the loop never ends (the body is a function of start
\* alone): returns is then FALSE.
RECURSIVE ChunkLoop(_, _, _, _, _, _)
ChunkLoop(t, size, overlap, st, cs, seen) ==
    IF ~(st < Len(t)) THEN [returns |-> TRUE, chunks |-> cs]
    ELSE IF st \in seen THEN [returns |-> FALSE, chunks |-> cs]
    ELSE LET end == ChunkEnd(t, st, size)
         IN  ChunkLoop(t, size, overlap, NextStart(t, end, overlap),
                       AppendChunk(cs, t, st, end), seen \cup {st})

ChunkText(t, size, overlap) ==
    IF Len(t) = 0 THEN [returns |-> TRUE, chunks |-> <<>>]
    ELSE ChunkLoop(t, size, overlap, 0, <<>>, {})

----------------------------------------------------------------------------
(* Inputs of the pipeline model.                                           *)

Rep(c, n) == [i \in 1..n |-> c]

\* URLs and identifiers are sequences of tokens.
Urls == { <<"youtu.be/", "a">>, <<"a">>, <<"video_", "a">> }

VideoIds == { <<"a">>, <<"video_", "a">>, <<"b">> }

\* The text the fetcher returns as description: one with a sentence end at
\* index 19, one too short, one of whitespace only.
Descriptions ==
    { Rep("a", 19) \o <<".", " ">> \o Rep("a", 29),
      Rep("a", 3),
      Rep(" ", 55) }

VideoInfos ==
    { [title |-> "Title", channel |-> "Channel", upload_date |-> "20240101",
       description |-> d] : d \in Descriptions }

\* The (chunk_size, chunk_overlap) pairs a call passes. On the first
\* description they give two chunks, a loop that never ends, one chunk.
ChunkParams == { <<30, 0>>, <<30, 10>>, <<60, 10>> }

Questions == { <<"q">>, <<>> }

Responses == { <<" ", "o", "k", "\n">> }

MaxTopK == 2

MaxDist == 1

Distances == 0..MaxDist

\* _chunk_text over the inputs of the pipeline model, computed once.
Chunked == [d \in Descriptions, p \in ChunkParams |-> ChunkText(d, p[1], p[2])]

----------------------------------------------------------------------------
(* VideoProcessor._extract_video_id                                        *)

UrlPatterns ==
    << { <<"youtube.com/", "watch", "?", "v=">>, <<"youtu.be/">> },
       { <<"youtube.com/", "embed/">> },
       { <<"youtube.com/", "v/">> } >>

\* The characters the capture group [^&\n?]* stops at.
CaptureStops == {"&", "\n", "?"}

PrefixAt(url, i, pre) ==
    /\ i + Len(pre) - 1 <= Len(url)
    /\ SubSeq(url, i, i + Len(pre) - 1) = pre

\* re.search(pattern, url).group(1) for the k-th pattern, matched leftmost.
CaptureOf(url, k) ==
    LET at == {i \in 1..Len(url) : \E pre \in UrlPatterns[k] : PrefixAt(url, i, pre)}
        i == SetMin(at)
        pre == CHOOSE q \in UrlPatterns[k] : PrefixAt(url, i, q)
        from == i + Len(pre)
        stops == {j \in from..Len(url) : url[j] \in CaptureStops}
        to == IF stops = {} THEN Len(url) ELSE SetMin(stops) - 1
    IN  SubSeq(url, from, to)

PatternMatches(url, k) ==
    \E i \in 1..Len(url) : \E pre \in UrlPatterns[k] : PrefixAt(url, i, pre)

\* Mutant: the patterns tried in the reverse order.
ExtractVideoIdLastPattern(url) ==
    LET hits == {k \in 1..Len(UrlPatterns) : PatternMatches(url, k)}
    IN  IF hits # {} THEN CaptureOf(url, SetMax(hits)) ELSE url

ExtractVideoId(url) ==
    LET hits == {k \in 1..Len(UrlPatterns) : PatternMatches(url, k)}
    IN  IF hits # {} THEN CaptureOf(url, SetMin(hits)) ELSE url

\* f"video_{video_id}"
CollectionName(video_id) == <<"video_">> \o video_id

----------------------------------------------------------------------------
(* The vector store, as the two classes use it.                            *)

Names == {CollectionName(v) : v \in VideoIds}

NoCollection == [exists |-> FALSE]

\* collection.count()
Count(c) == IF c.exists THEN Len(c.ids) ELSE 0

\* client.get_or_create_collection(name, metadata): an existing collection
\* is returned as it is.
GetOrCreate(c, metadata) ==
    IF c.exists THEN c
    ELSE [exists |-> TRUE, metadata |-> metadata,
          ids |-> <<>>, documents |-> <<>>, metadatas |-> <<>>]

\* collection.add(ids, embeddings, documents, metadatas): the records whose
\* id the collection does not hold yet are appended.
RECURSIVE StoreAdd(_, _, _, _)
StoreAdd(c, ids, documents, metadatas) ==
    IF ids = <<>> THEN c
    ELSE LET held == \E j \in 1..Len(c.ids) : c.ids[j] = Head(ids)
             c1 == IF held THEN c
                   ELSE [c EXCEPT !.ids = Append(@, Head(ids)),
                                  !.documents = Append(@, Head(documents)),
                                  !.metadatas = Append(@, Head(metadatas))]
         IN  StoreAdd(c1, Tail(ids), Tail(documents), Tail(metadatas))

\* collection.query(query_embeddings, n_results = k): the k nearest records,
\* nearest first. Which records are nearest and at what distances is the
\* embedding model's doing, and the order among equal distances the store's:
\* any k distinct records (all of them when fewer are held), at any distances
\* that do not decrease.
QueryRows(c, k) ==
    LET n == Len(c.ids)
        m == IF k < n THEN k ELSE n
        picks == {r \in [1..m -> 1..n] : \A i, j \in 1..m : i # j => r[i] # r[j]}
        dists == {d \in [1..m -> Distances] : \A i \in 1..(m - 1) : d[i] <= d[i + 1]}
    IN  { [i \in 1..m |-> [document |-> c.documents[p[1][i]],
                           metadata |-> c.metadatas[p[1][i]],
                           distance |-> p[2][i]]] : p \in picks \X dists }

----------------------------------------------------------------------------
(* What a public call leaves behind.                                       *)

Call(name, ok) == [call |-> name, ok |-> ok]

\* Mutant: a call that failed is made a second time.
AttemptTwice(log, name, ok) ==
    IF ok THEN Append(log, Call(name, TRUE))
    ELSE log \o <<Call(name, FALSE), Call(name, FALSE)>>

\* One call of a collaborator, entered in the log of the public call.
Attempt(log, name, ok) == Append(log, Call(name, ok))

Ran(o, r, cs, s, q) == [outcome |-> o, result |-> r, calls |-> cs, store |-> s, query |-> q]

NoQuery == [n_results |-> -1, rows |-> <<>>]

\* An exception that leaves the public method: by names the call that raised.
Raised(by) == [raised_by |-> by]

----------------------------------------------------------------------------
(* VideoProcessor.process_video                                            *)

MinTextLen == 50

\* Mutants of the existence check: an off-by-one bound, and no check.
AlreadyProcessedOffByOne(c) == c.exists /\ Count(c) > 1

AlreadyProcessedNever(c) == FALSE

\* get_collection succeeded and existing_collection.count() > 0
AlreadyProcessed(c) == c.exists /\ Count(c) > 0

AlreadyExistsResult(video_id, c) ==
    [status |-> "already_exists", video_id |-> video_id,
     collection_name |-> CollectionName(video_id), chunk_count |-> Count(c)]

ErrorResult(reason) == [status |-> "error", error |-> reason]

ProcessedResult(video_id, info, n) ==
    [status |-> "success", video_id |-> video_id,
     collection_name |-> CollectionName(video_id), video_info |-> info,
     chunk_count |-> n]

CollectionMetadata(video_id, info) ==
    [video_id |-> video_id, video_title |-> info.title, channel |-> info.channel]

\* ids = [f"chunk_{i}" for i in range(len(chunks))]
ChunkIds(n) == [i \in 1..n |-> <<"chunk_", ToString(i - 1)>>]

\* Mutant: chunk_index counted from 1.
ChunkMetadatasFromOne(video_id, info, url, n) ==
    [i \in 1..n |->
        [video_id |-> video_id, video_title |-> info.title, channel |-> info.channel,
         chunk_index |-> i, total_chunks |-> n,
         upload_date |-> info.upload_date, video_url |-> url]]

ChunkMetadatas(video_id, info, url, n) ==
    [i \in 1..n |->
        [video_id |-> video_id, video_title |-> info.title, channel |-> info.channel,
         chunk_index |-> i - 1, total_chunks |-> n,
         upload_date |-> info.upload_date, video_url |-> url]]

PVFails == {"none", "get_video_info", "get_transcript", "embed_batch",
            "get_or_create_collection", "add"}

\* The call on store s; fail names the first collaborator call that fails.
ProcessVideoRun(s, url, size, overlap, info, fail) ==
    LET video_id == ExtractVideoId(url)
        name == CollectionName(video_id)
        existing == s[name]
        c1 == <<Call("get_collection", existing.exists)>>
        c2 == Attempt(c1, "get_video_info", fail # "get_video_info")
        c3 == Attempt(c2, "get_transcript", fail # "get_transcript")
        text_content == info.description
        cut == Chunked[text_content, <<size, overlap>>]
        c4 == Attempt(c3, "_chunk_text", cut.returns)
        n == Len(cut.chunks)
        c5 == Attempt(c4, "embed_batch", fail # "embed_batch")
        c6 == Attempt(c5, "get_or_create_collection", fail # "get_or_create_collection")
        collection == GetOrCreate(existing, CollectionMetadata(video_id, info))
        c7 == Attempt(c6, "add", fail # "add")
        filled == StoreAdd(collection, ChunkIds(n), cut.chunks,
                           ChunkMetadatas(video_id, info, url, n))
    IN  IF AlreadyProcessed(existing)
        THEN Ran("returned", AlreadyExistsResult(video_id, existing), c1, s, NoQuery)
        ELSE IF fail = "get_video_info"
        THEN Ran("returned", ErrorResult("Failed to extract info"), c2, s, NoQuery)
        ELSE IF fail = "get_transcript"
        THEN Ran("returned", ErrorResult("Failed to extract transcript"), c3, s, NoQuery)
        ELSE IF Len(text_content) < MinTextLen
        THEN Ran("returned",
                 ErrorResult("No transcript or description available for this video"),
                 c3, s, NoQuery)
        ELSE IF ~cut.returns
        THEN Ran("hang", Raised("none"), c4, s, NoQuery)
        ELSE IF n = 0
        THEN Ran("returned", ErrorResult("Failed to create chunks from video content"),
                 c4, s, NoQuery)
        ELSE IF fail = "embed_batch"
        THEN Ran("raised", Raised("embed_batch"), c5, s, NoQuery)
        ELSE IF fail = "get_or_create_collection"
        THEN Ran("raised", Raised("get_or_create_collection"), c6, s, NoQuery)
        ELSE IF fail = "add"
        THEN Ran("raised", Raised("add"), c7, [s EXCEPT ![name] = collection], NoQuery)
        ELSE Ran("returned", ProcessedResult(video_id, info, n), c7,
                 [s EXCEPT ![name] = filled], NoQuery)

----------------------------------------------------------------------------
(* VideoProcessor.delete_video                                             *)

\* Mutant: True returned whether or not delete_collection raised.
DeleteVideoRunAlwaysTrue(s, video_id) ==
    Ran("returned", [value |-> TRUE],
        <<Call("delete_collection", s[CollectionName(video_id)].exists)>>,
        [s EXCEPT ![CollectionName(video_id)] = NoCollection], NoQuery)

DeleteVideoRun(s, video_id) ==
    LET name == CollectionName(video_id)
    IN  IF s[name].exists
        THEN Ran("returned", [value |-> TRUE], <<Call("delete_collection", TRUE)>>,
                 [s EXCEPT ![name] = NoCollection], NoQuery)
        ELSE Ran("returned", [value |-> FALSE], <<Call("delete_collection", FALSE)>>,
                 s, NoQuery)

----------------------------------------------------------------------------
(* VideoProcessor.list_processed_videos, QAEngine.list_available_videos    *)

\* The order in which list_collections returns the collections.
NameOrder == << <<"video_", "a">>, <<"video_", "b">>, <<"video_", "video_", "a">> >>

\* collection.name.replace("video_", "")
ListedVideoId(name) == SelectSeq(name, LAMBDA tok : tok # "video_")

\* collection.name.startswith("video_")
IsVideoCollection(name) == Len(name) > 0 /\ name[1] = "video_"

ListedNames(s) ==
    SelectSeq(NameOrder, LAMBDA nm : s[nm].exists /\ IsVideoCollection(nm))

ListProcessedEntries(s) ==
    LET names == ListedNames(s)
    IN  [i \in 1..Len(names) |->
            [video_id |-> ListedVideoId(names[i]), collection_name |-> names[i],
             title |-> s[names[i]].metadata.video_title,
             channel |-> s[names[i]].metadata.channel,
             chunk_count |-> Count(s[names[i]])]]

ListAvailableEntries(s) ==
    LET names == ListedNames(s)
    IN  [i \in 1..Len(names) |->
            [video_id |-> ListedVideoId(names[i]),
             title |-> s[names[i]].metadata.video_title,
             channel |-> s[names[i]].metadata.channel,
             chunks |-> Count(s[names[i]])]]

ListRun(s, entries, ok) ==
    IF ok
    THEN Ran("returned", [videos |-> entries], <<Call("list_collections", TRUE)>>, s, NoQuery)
    ELSE Ran("raised", Raised("list_collections"), <<Call("list_collections", FALSE)>>,
             s, NoQuery)

----------------------------------------------------------------------------
(* QAEngine.answer_question                                                *)

PreviewLen == 100

NO_CONTEXT_RESPONSE == "I don't have enough information from the video transcript to answer that question."

NotFoundReason == "Video not found. Please process the video first."

NoLlmWarning == "Ollama is not available. Here's the relevant context from the video:\n\n"

LlmErrorWarning == "Error generating answer: "

LlmErrorContextHeader == "\n\nRelevant context:\n\n"

\* The text of the exception ollama.generate raises.
GenerateError == "connection refused"

RECURSIVE Join(_, _)
Join(parts, sep) ==
    IF parts = <<>> THEN <<>>
    ELSE IF Len(parts) = 1 THEN parts[1]
    ELSE parts[1] \o <<sep>> \o Join(Tail(parts), sep)

\* Mutant: top_k passed on unclamped.
NResultsUnclamped(k, c) == k

\* n_results = min(self.top_k, collection.count())
NResults(k, c) == IF k < Count(c) THEN k ELSE Count(c)

\* timestamp = f"Part {chunk_idx + 1}"
Timestamp(chunk_idx) == <<"Part ", ToString(chunk_idx + 1)>>

\* chunk[:100] + "..." if len(chunk) > 100 else chunk
TextPreview(chunk) ==
    IF Len(chunk) > PreviewLen THEN SubSeq(chunk, 1, PreviewLen) \o <<"...">> ELSE chunk

\* Mutant: the distance reported as it is.
RelevanceScoreRaw(distance) == distance

\* 1 - distance
RelevanceScore(distance) == 1 - distance

SourceOf(row) ==
    [chunk_index |-> row.metadata.chunk_index,
     timestamp |-> Timestamp(row.metadata.chunk_index),
     text_preview |-> TextPreview(row.document),
     relevance_score |-> RelevanceScore(row.distance)]

Sources(rows) == [i \in 1..Len(rows) |-> SourceOf(rows[i])]

\* CONTEXT_CHUNK_TEMPLATE.format(timestamp = timestamp, text = chunk)
ContextPart(row) ==
    <<"[">> \o Timestamp(row.metadata.chunk_index) \o <<"] ">> \o row.document

\* "\n\n".join(context_parts)
Context(rows) == Join([i \in 1..Len(rows) |-> ContextPart(rows[i])], "\n\n")

\* Mutant: a missing collection reported as one without matches.
NotFoundAsNoContext ==
    [status |-> "no_context", answer |-> <<NO_CONTEXT_RESPONSE>>, sources |-> <<>>]

NotFoundResult == [status |-> "error", error |-> NotFoundReason]

NoContextResult == [status |-> "no_context", answer |-> <<NO_CONTEXT_RESPONSE>>, sources |-> <<>>]

\* Mutant: the fallback answer without the retrieved context.
NoLlmResultBare(context, sources, video_title, video_id) ==
    [status |-> "no_llm", answer |-> <<NoLlmWarning>>, sources |-> sources,
     video_title |-> video_title, video_id |-> video_id]

NoLlmResult(context, sources, video_title, video_id) ==
    [status |-> "no_llm", answer |-> <<NoLlmWarning>> \o context, sources |-> sources,
     video_title |-> video_title, video_id |-> video_id]

\* Mutant: the sources dropped when generation fails.
LlmErrorResultNoSources(e, context, sources, video_title, video_id) ==
    [status |-> "llm_error",
     answer |-> <<LlmErrorWarning, e, LlmErrorContextHeader>> \o context,
     sources |-> <<>>, video_title |-> video_title, video_id |-> video_id,
     error |-> e]

LlmErrorResult(e, context, sources, video_title, video_id) ==
    [status |-> "llm_error",
     answer |-> <<LlmErrorWarning, e, LlmErrorContextHeader>> \o context,
     sources |-> sources, video_title |-> video_title, video_id |-> video_id,
     error |-> e]

\* Mutant: the generated text as it came.
AnswerResultUntrimmed(response, sources, video_title, video_id) ==
    [status |-> "success", answer |-> response, sources |-> sources,
     video_title |-> video_title, video_id |-> video_id, model_used |-> "llama3.2"]

AnswerResult(response, sources, video_title, video_id) ==
    [status |-> "success", answer |-> Strip(response), sources |-> sources,
     video_title |-> video_title, video_id |-> video_id, model_used |-> "llama3.2"]

AQFails == {"none", "embed_text", "query", "ollama.list", "generate"}

\* collection.query(n_results = 0): the store's argument check. The installed
\* chromadb decides: releases with validate_n_results raise ValueError for
\* n_results <= 0, the ones before it return no rows.
QueryRejections(n_results) == IF n_results <= 0 THEN {"validate_n_results"} ELSE {}

\* Mutant: the collection looked up with get_or_create_collection, which
\* makes one for a video that was never processed.
AnswerQuestionRunCreating(s, k, available, question, video_id, rows, response, fail) ==
    Ran("returned", NoContextResult, <<Call("get_or_create_collection", TRUE)>>,
        [s EXCEPT ![CollectionName(video_id)] =
            GetOrCreate(@, [video_id |-> video_id, video_title |-> "Unknown"])],
        [n_results |-> 0, rows |-> <<>>])

\* The call on store s with top_k = k; rows is what the store's query returns,
\* response what ollama.generate returns, fail the first collaborator call
\* that fails.
AnswerQuestionRun(s, k, available, question, video_id, rows, response, fail) ==
    LET name == CollectionName(video_id)
        collection == s[name]
        c1 == <<Call("get_collection", collection.exists)>>
        video_title == collection.metadata.video_title
        c2 == Attempt(c1, "embed_text", fail # "embed_text")
        c3 == Attempt(c2, "query", fail \notin {"query", "validate_n_results"})
        asked == [n_results |-> NResults(k, collection), rows |-> rows]
        sources == Sources(rows)
        context == Context(rows)
        \* _check_ollama: without the package no call is made
        c4 == IF available THEN Attempt(c3, "ollama.list", fail # "ollama.list") ELSE c3
        c5 == Attempt(c4, "ollama.generate", fail # "generate")
    IN  IF ~collection.exists
        THEN Ran("returned", NotFoundResult, c1, s, NoQuery)
        ELSE IF fail = "embed_text"
        THEN Ran("raised", Raised("embed_text"), c2, s, NoQuery)
        ELSE IF fail = "query"
        THEN Ran("raised", Raised("query"), c3, s,
                 [n_results |-> NResults(k, collection), rows |-> <<>>])
        ELSE IF fail = "validate_n_results"
        THEN Ran("raised", Raised("validate_n_results"), c3, s,
                 [n_results |-> NResults(k, collection), rows |-> <<>>])
        ELSE IF Len(rows) = 0
        THEN Ran("returned", NoContextResult, c3, s, asked)
        ELSE IF ~available \/ fail = "ollama.list"
        THEN Ran("returned", NoLlmResult(context, sources, video_title, video_id),
                 c4, s, asked)
        ELSE IF fail = "generate"
        THEN Ran("returned",
                 LlmErrorResult(GenerateError, context, sources, video_title, video_id),
                 c5, s, asked)
        ELSE Ran("returned", AnswerResult(response, sources, video_title, video_id),
                 c5, s, asked)

----------------------------------------------------------------------------
(* The two specifications.                                                 *)

\* st.session_state.current_video_id = None: no video_id is this value.
None == <<"None">>

ChunkIdle ==
    /\ text = <<>>
    /\ chunk_size = 1
    /\ chunk_overlap = 0
    /\ start = 0
    /\ chunks = <<>>
    /\ cpc = "init"
    /\ covered = {}
    /\ spin = FALSE

SysIdle ==
    /\ store = [nm \in Names |-> NoCollection]
    /\ OLLAMA_AVAILABLE = TRUE
    /\ top_k = 1
    /\ op = [name |-> "none"]
    /\ outcome = "none"
    /\ result = [value |-> FALSE]
    /\ calls = <<>>
    /\ query = NoQuery
    /\ ingested = [v \in VideoIds |-> 0]
    /\ deleted = {}
    /\ current_video_id = None
    /\ chat_history = <<>>

InitChunk ==
    /\ text \in Texts
    /\ chunk_size \in 1..MaxChunkSize
    /\ chunk_overlap \in 0..(chunk_size - 1)
    /\ start = 0
    /\ chunks = <<>>
    /\ cpc = "init"
    /\ covered = {}
    /\ spin = FALSE
    /\ SysIdle

\* The call up to the first test of the while condition.
ChunkCall ==
    /\ cpc = "init"
    /\ cpc' = IF Len(text) = 0 THEN "done" ELSE "loop"
    /\ UNCHANGED <<text, chunk_size, chunk_overlap, start, chunks, covered, spin>>
    /\ UNCHANGED sysVars
    /\ UNCHANGED appVars

\* From a start at or below StartFloor every iteration has an empty window
\* text[start:end] (both indices lie before the text), appends nothing and
\* lowers start again: the model keeps start at StartFloor there. A call with
\* chunk_overlap < chunk_size never has start below 1 - chunk_overlap.
StartFloor == -(Len(text) + chunk_size)

\* One iteration of the while loop and the test of its condition that follows.
\* The model keeps the first MaxChunks entries of chunks.
ChunkIter ==
    /\ cpc = "loop"
    /\ LET end == ChunkEnd(text, start, chunk_size)
           next == NextStart(text, end, chunk_overlap)
       IN  /\ chunks' = IF Len(chunks) < MaxChunks
                        THEN AppendChunk(chunks, text, start, end)
                        ELSE chunks
           /\ covered' = covered \cup ChunkPositions(text, start, end)
           /\ start' = IF next < StartFloor THEN StartFloor ELSE next
           /\ spin' = ~spin
           /\ cpc' = IF next < Len(text) THEN "loop" ELSE "done"
    /\ UNCHANGED <<text, chunk_size, chunk_overlap>>
    /\ UNCHANGED sysVars
    /\ UNCHANGED appVars

NextChunk == ChunkCall \/ ChunkIter

SpecChunk == InitChunk /\ [][NextChunk]_vars

\* The calls on texts with two kinds of sentence end, "." and "!".
MarkMaxLen == 5

MarkMaxChunkSize == 4

MarkAlphabet == {"a", ".", "!", " "}

MarkTexts == UNION {SeqsOfLen(MarkAlphabet, n) : n \in 0..MarkMaxLen}

InitChunkMarks ==
    /\ text \in MarkTexts
    /\ chunk_size \in 1..MarkMaxChunkSize
    /\ chunk_overlap \in 0..(chunk_size - 1)
    /\ start = 0
    /\ chunks = <<>>
    /\ cpc = "init"
    /\ covered = {}
    /\ spin = FALSE
    /\ SysIdle

SpecChunkMarks == InitChunkMarks /\ [][NextChunk]_vars

\* The same calls on the shorter texts, with the interpreter's progress: it
\* keeps executing a call that has not returned.
LiveMaxLen == 4

LiveMaxChunkSize == 3

InitChunkLive ==
    /\ InitChunk
    /\ Len(text) <= LiveMaxLen
    /\ chunk_size <= LiveMaxChunkSize

\* A step of a call that has not returned: every step of NextChunk is one,
\* and one is possible exactly while cpc is not "done".
Running ==
    /\ cpc # "done"
    /\ cpc' \in {"loop", "done"}
    /\ spin' \in BOOLEAN
    /\ <<cpc', spin'>> # <<cpc, spin>>

SpecChunkFair == InitChunkLive /\ [][NextChunk]_vars /\ WF_<<cpc, spin>>(Running)

\* The calls with the default chunk_size and chunk_overlap on texts of
\* ExampleLen characters: letters, with sentence ends ". " at some of
\* SepPlaces and blanks at one of BlankPlaces.
ExampleLen == 1200

DefaultChunkSize == 500

DefaultChunkOverlap == 50

SepPlaces == {300, 700, 900, 1100}

BlankPlaces == { {}, {0}, {499, 500} }

ExampleText(seps, blanks) ==
    [i \in 1..ExampleLen |->
        IF (i - 1) \in seps THEN "."
        ELSE IF (i - 2) \in seps \/ (i - 1) \in blanks THEN " "
        ELSE "a"]

ExampleTexts == {ExampleText(seps, blanks) : seps \in SUBSET SepPlaces, blanks \in BlankPlaces}

InitChunkExample ==
    /\ text \in ExampleTexts
    /\ chunk_size = DefaultChunkSize
    /\ chunk_overlap = DefaultChunkOverlap
    /\ start = 0
    /\ chunks = <<>>
    /\ cpc = "init"
    /\ covered = {}
    /\ spin = FALSE
    /\ SysIdle

SpecChunkExample == InitChunkExample /\ [][NextChunk]_vars

\* The calls with chunk_overlap >= chunk_size, which neither _chunk_text nor
\* process_video nor the app's number inputs (chunk_size 100..1000, overlap
\* 0..200) exclude.
InitChunkWide ==
    /\ text \in {t \in Texts : Len(t) <= LiveMaxLen}
    /\ chunk_size \in 1..LiveMaxChunkSize
    /\ chunk_overlap \in chunk_size..(LiveMaxChunkSize + 1)
    /\ start = 0
    /\ chunks = <<>>
    /\ cpc = "init"
    /\ covered = {}
    /\ spin = FALSE
    /\ SysIdle

SpecChunkWideFair == InitChunkWide /\ [][NextChunk]_vars /\ WF_<<cpc, spin>>(Running)

----------------------------------------------------------------------------
(* The pipeline: the public calls, each a whole call.                      *)

Init ==
    /\ ChunkIdle
    /\ store = [nm \in Names |-> NoCollection]
    /\ OLLAMA_AVAILABLE \in BOOLEAN
    /\ top_k \in 1..MaxTopK
    /\ op = [name |-> "none"]
    /\ outcome = "none"
    /\ result = [value |-> FALSE]
    /\ calls = <<>>
    /\ query = NoQuery
    /\ ingested = [v \in VideoIds |-> 0]
    /\ deleted = {}
    /\ current_video_id = None
    /\ chat_history = <<>>

Leaves(r) ==
    /\ outcome' = r.outcome
    /\ result' = r.result
    /\ calls' = r.calls
    /\ store' = r.store
    /\ query' = r.query

\* The inputs a call does not read are not varied.
AnyInfo == CHOOSE info \in VideoInfos : TRUE

ProcessVideo ==
    /\ outcome # "hang"
    /\ \E url \in Urls, p \in ChunkParams :
          LET done == AlreadyProcessed(store[CollectionName(ExtractVideoId(url))])
          IN  \E fail \in IF done THEN {"none"} ELSE PVFails :
              \E info \in IF done \/ fail \in {"get_video_info", "get_transcript"}
                          THEN {AnyInfo} ELSE VideoInfos :
                LET r == ProcessVideoRun(store, url, p[1], p[2], info, fail)
                IN  /\ Leaves(r)
                    /\ op' = [name |-> "process_video", video_url |-> url,
                              chunk_size |-> p[1], chunk_overlap |-> p[2]]
                    /\ ingested' =
                          IF r.outcome = "returned" /\ r.result.status = "success"
                          THEN [ingested EXCEPT ![ExtractVideoId(url)] = r.result.chunk_count]
                          ELSE ingested
                    /\ deleted' = IF r.store # store
                                  THEN deleted \ {ExtractVideoId(url)} ELSE deleted
    /\ UNCHANGED <<OLLAMA_AVAILABLE, top_k>>
    /\ UNCHANGED chunkVars
    /\ UNCHANGED appVars

AnswerQuestion ==
    /\ outcome # "hang"
    /\ \E question \in Questions, video_id \in VideoIds, response \in Responses :
          LET collection == store[CollectionName(video_id)]
              reached == IF ~collection.exists THEN {"none"}
                         ELSE (IF OLLAMA_AVAILABLE THEN AQFails
                               ELSE AQFails \ {"ollama.list", "generate"})
                              \cup QueryRejections(NResults(top_k, collection))
          IN  \E fail \in reached :
              \E rows \in IF collection.exists
                             /\ fail \notin {"embed_text", "query", "validate_n_results"}
                          THEN QueryRows(collection, NResults(top_k, collection))
                          ELSE {<<>>} :
                /\ Leaves(AnswerQuestionRun(store, top_k, OLLAMA_AVAILABLE, question,
                                            video_id, rows, response, fail))
                /\ op' = [name |-> "answer_question", question |-> question,
                          video_id |-> video_id]
    /\ UNCHANGED <<OLLAMA_AVAILABLE, top_k, ingested, deleted>>
    /\ UNCHANGED chunkVars
    /\ UNCHANGED appVars

DeleteVideo ==
    /\ outcome # "hang"
    /\ \E video_id \in VideoIds :
          LET r == DeleteVideoRun(store, video_id)
          IN  /\ Leaves(r)
              /\ op' = [name |-> "delete_video", video_id |-> video_id]
              /\ ingested' = IF r.result.value THEN [ingested EXCEPT ![video_id] = 0]
                             ELSE ingested
              /\ deleted' = IF r.result.value THEN deleted \cup {video_id} ELSE deleted
    /\ UNCHANGED <<OLLAMA_AVAILABLE, top_k>>
    /\ UNCHANGED chunkVars
    /\ UNCHANGED appVars

ListProcessedVideos ==
    /\ outcome # "hang"
    /\ \E ok \in BOOLEAN : Leaves(ListRun(store, ListProcessedEntries(store), ok))
    /\ op' = [name |-> "list_processed_videos"]
    /\ UNCHANGED <<OLLAMA_AVAILABLE, top_k, ingested, deleted>>
    /\ UNCHANGED chunkVars
    /\ UNCHANGED appVars

ListAvailableVideos ==
    /\ outcome # "hang"
    /\ \E ok \in BOOLEAN : Leaves(ListRun(store, ListAvailableEntries(store), ok))
    /\ op' = [name |-> "list_available_videos"]
    /\ UNCHANGED <<OLLAMA_AVAILABLE, top_k, ingested, deleted>>
    /\ UNCHANGED chunkVars
    /\ UNCHANGED appVars

\* The settings panel: st.session_state.qa_engine.top_k = top_k
Configure ==
    /\ outcome # "hang"
    /\ \E k \in 1..MaxTopK : top_k' = k
    /\ op' = [name |-> "configure"]
    /\ outcome' = "returned"
    /\ result' = [value |-> TRUE]
    /\ calls' = <<>>
    /\ query' = NoQuery
    /\ UNCHANGED <<store, OLLAMA_AVAILABLE, ingested, deleted>>
    /\ UNCHANGED chunkVars
    /\ UNCHANGED appVars

Next ==
    \/ ProcessVideo
    \/ AnswerQuestion
    \/ DeleteVideo
    \/ ListProcessedVideos
    \/ ListAvailableVideos
    \/ Configure

Spec == Init /\ [][Next]_vars

----------------------------------------------------------------------------
(* The app session (app.py): one action per script run that a button or   *)
(* the question box starts.                                                *)

MaxHistory == 1

\* The "Process Video" button with a url entered.
AppProcess ==
    /\ outcome # "hang"
    /\ \E url \in Urls, p \in ChunkParams :
          LET done == AlreadyProcessed(store[CollectionName(ExtractVideoId(url))])
          IN  \E fail \in IF done THEN {"none"} ELSE PVFails :
              \E info \in IF done \/ fail \in {"get_video_info", "get_transcript"}
                          THEN {AnyInfo} ELSE VideoInfos :
                LET r == ProcessVideoRun(store, url, p[1], p[2], info, fail)
                    shown == r.outcome = "returned"
                             /\ r.result.status \in {"success", "already_exists"}
                IN  /\ Leaves(r)
                    /\ op' = [name |-> "app.process", video_url |-> url,
                              chunk_size |-> p[1], chunk_overlap |-> p[2]]
                    /\ ingested' =
                          IF r.outcome = "returned" /\ r.result.status = "success"
                          THEN [ingested EXCEPT ![ExtractVideoId(url)] = r.result.chunk_count]
                          ELSE ingested
                    /\ deleted' = IF r.store # store
                                  THEN deleted \ {ExtractVideoId(url)} ELSE deleted
                    /\ current_video_id' = IF shown THEN r.result.video_id
                                           ELSE current_video_id
    /\ UNCHANGED <<OLLAMA_AVAILABLE, top_k, chat_history>>
    /\ UNCHANGED chunkVars

\* The button of a listed video.
AppSelect ==
    /\ outcome # "hang"
    /\ LET videos == ListProcessedEntries(store)
       IN  /\ Leaves(ListRun(store, videos, TRUE))
           /\ \E i \in 1..Len(videos) :
                 /\ op' = [name |-> "app.select", video_id |-> videos[i].video_id]
                 /\ current_video_id' = videos[i].video_id
    /\ chat_history' = <<>>
    /\ UNCHANGED <<OLLAMA_AVAILABLE, top_k, ingested, deleted>>
    /\ UNCHANGED chunkVars

\* The delete button of a listed video.
AppDelete ==
    /\ outcome # "hang"
    /\ LET videos == ListProcessedEntries(store)
       IN  \E i \in 1..Len(videos) :
              LET video_id == videos[i].video_id
                  r == DeleteVideoRun(store, video_id)
                  reset == r.result.value /\ current_video_id = video_id
              IN  /\ Leaves(r)
                  /\ op' = [name |-> "app.delete", video_id |-> video_id]
                  /\ ingested' = IF r.result.value THEN [ingested EXCEPT ![video_id] = 0]
                                 ELSE ingested
                  /\ deleted' = IF r.result.value THEN deleted \cup {video_id} ELSE deleted
                  /\ current_video_id' = IF reset THEN None ELSE current_video_id
                  /\ chat_history' = IF reset THEN <<>> ELSE chat_history
    /\ UNCHANGED <<OLLAMA_AVAILABLE, top_k>>
    /\ UNCHANGED chunkVars

\* A question entered in the chat box, which is shown when the current
\* video_id is among the listed ones. The model keeps the first MaxHistory
\* exchanges.
AppAsk ==
    /\ outcome # "hang"
    /\ current_video_id # None
    /\ LET videos == ListProcessedEntries(store)
       IN  \E i \in 1..Len(videos) : videos[i].video_id = current_video_id
    /\ \E question \in Questions \ {<<>>}, response \in Responses :
          LET collection == store[CollectionName(current_video_id)]
              reached == IF ~collection.exists THEN {"none"}
                         ELSE (IF OLLAMA_AVAILABLE THEN AQFails
                               ELSE AQFails \ {"ollama.list", "generate"})
                              \cup QueryRejections(NResults(top_k, collection))
          IN  \E fail \in reached :
              \E rows \in IF collection.exists
                             /\ fail \notin {"embed_text", "query", "validate_n_results"}
                          THEN QueryRows(collection, NResults(top_k, collection))
                          ELSE {<<>>} :
                LET r == AnswerQuestionRun(store, top_k, OLLAMA_AVAILABLE, question,
                                           current_video_id, rows, response, fail)
                    kept == /\ r.outcome = "returned"
                            /\ r.result.status \in {"success", "no_llm", "llm_error"}
                            /\ Len(chat_history) < MaxHistory
                IN  /\ Leaves(r)
                    /\ op' = [name |-> "app.ask", question |-> question,
                              video_id |-> current_video_id]
                    /\ chat_history' =
                          IF kept
                          THEN Append(chat_history,
                                      [question |-> question, answer |-> r.result.answer,
                                       sources |-> r.result.sources,
                                       video_id |-> current_video_id])
                          ELSE chat_history
    /\ UNCHANGED <<OLLAMA_AVAILABLE, top_k, ingested, deleted, current_video_id>>
    /\ UNCHANGED chunkVars

NextApp == AppProcess \/ AppSelect \/ AppDelete \/ AppAsk

\* The session before the first script run.
InitApp == ChunkIdle /\ SysIdle

SpecApp == InitApp /\ [][NextApp]_vars

----------------------------------------------------------------------------
(* VideoProcessor._extract_video_id on its own.                            *)

MaxUrlLen == 4

UrlTokens == {"youtube.com/", "watch", "?", "v=", "youtu.be/", "embed/", "v/", "a", "&"}

UrlSamples == UNION {SeqsOfLen(UrlTokens, n) : n \in 0..MaxUrlLen}

ExtractCall ==
    /\ op.name = "none"
    /\ \E url \in UrlSamples :
          /\ op' = [name |-> "_extract_video_id", url |-> url]
          /\ result' = [value |-> ExtractVideoId(url)]
    /\ outcome' = "returned"
    /\ UNCHANGED <<store, OLLAMA_AVAILABLE, top_k, calls, query, ingested, deleted>>
    /\ UNCHANGED chunkVars
    /\ UNCHANGED appVars

InitExtract == ChunkIdle /\ SysIdle

SpecExtract == InitExtract /\ [][ExtractCall]_vars

----------------------------------------------------------------------------
(* Claims about the chunker.                                               *)

\* C3: for every text, every chunk_size > 0 and every 0 <= chunk_overlap <
\* chunk_size, a call of _chunk_text returns.
C3_ChunkerTerminates == <>(cpc = "done")

\* C4: when _chunk_text has returned, every non-whitespace position of the
\* text lies in one of the returned chunks.
C4_ChunksCoverText ==
    cpc = "done" =>
        \A i \in 1..Len(text) : text[i] \notin Whitespace => (i - 1) \in covered

----------------------------------------------------------------------------
(* Claims about the pipeline.                                              *)

IsCall(name) == op.name = name

Returned(name) == op.name = name /\ outcome = "returned"

Made(name, ok) == \E i \in 1..Len(calls) : calls[i] = Call(name, ok)

\* C1: a process_video call for a video_id whose ingestion has succeeded and
\* which has not been deleted since returns already_exists with the chunk
\* count of that ingestion and leaves the stored count as it was, whatever
\* chunk_size and chunk_overlap it passes.
C1_ReingestReturnsAlreadyExists ==
    [][ LET video_id == ExtractVideoId(op'.video_url)
            name == CollectionName(video_id)
        IN  (op'.name = "process_video" /\ ingested[ExtractVideoId(op'.video_url)] > 0) =>
                /\ outcome' = "returned"
                /\ result'.status = "already_exists"
                /\ result'.chunk_count = ingested[video_id]
                /\ Count(store[name]) = ingested[video_id]
                /\ Count(store'[name]) = Count(store[name]) ]_vars

\* C1 witness: a second call, with a chunk_size that would cut two chunks,
\* answered already_exists with the one chunk of the first call.
C1_Witness ==
    /\ Returned("process_video")
    /\ result.status = "already_exists"
    /\ op.chunk_size = 30
    /\ result.chunk_count = 1
    /\ ingested[result.video_id] = 1

\* C2: a collection that holds chunks is left exactly as it is by every call
\* except a delete_video of its video_id.
C2_NonEmptyCollectionImmutable ==
    [][ \A nm \in Names :
          ( /\ Count(store[nm]) > 0
            /\ ~(op'.name = "delete_video" /\ CollectionName(op'.video_id) = nm) ) =>
              store'[nm] = store[nm] ]_vars

\* C2 witness: a second ingestion and an answered question have both met a
\* collection that holds chunks.
C2_Witness ==
    /\ Returned("answer_question")
    /\ result.status = "success"
    /\ Count(store[CollectionName(op.video_id)]) = 2
    /\ \A v \in {<<"a">>, <<"video_", "a">>} : Count(store[CollectionName(v)]) > 0

\* C5: no public call raises.
C5_PublicCallsNeverRaise == outcome # "raised"

BackendUnavailable == ~OLLAMA_AVAILABLE \/ Made("ollama.list", FALSE)

\* C6: when retrieval returned rows and the backend is unavailable (no
\* package, or the probe failed), the answer has status no_llm, sources, and
\* the warning followed by the concatenated context.
C6_NoLlmKeepsContext ==
    (IsCall("answer_question") /\ query.rows # <<>> /\ BackendUnavailable) =>
        /\ outcome = "returned"
        /\ result.status = "no_llm"
        /\ result.sources # <<>>
        /\ Len(result.sources) = Len(query.rows)
        /\ result.answer = <<NoLlmWarning>> \o Context(query.rows)
        /\ ~Made("ollama.generate", TRUE) /\ ~Made("ollama.generate", FALSE)

\* C6 witness: the probe failed after two rows were retrieved.
C6_Witness ==
    /\ Returned("answer_question")
    /\ Made("ollama.list", FALSE)
    /\ result.status = "no_llm"
    /\ Len(result.sources) = 2

\* C7: when the probe succeeded and generate raised, the answer has status
\* llm_error, the sources a success carries, the error detail and the whole
\* retrieved context.
C7_LlmErrorKeepsEvidence ==
    (IsCall("answer_question") /\ Made("ollama.generate", FALSE)) =>
        /\ Made("ollama.list", TRUE)
        /\ outcome = "returned"
        /\ result.status = "llm_error"
        /\ query.rows # <<>>
        /\ result.sources = Sources(query.rows)
        /\ result.sources =
              AnswerResult(<<>>, Sources(query.rows), "", op.video_id).sources
        /\ result.error = GenerateError
        /\ result.answer[2] = GenerateError
        /\ SubSeq(result.answer, 4, Len(result.answer)) = Context(query.rows)
        /\ \A i \in 1..Len(query.rows) :
              \E j \in 1..Len(result.answer) :
                 SubSeq(result.answer, j, j + Len(query.rows[i].document) - 1)
                    = query.rows[i].document

\* C7 witness: generate raised after two rows were retrieved.
C7_Witness ==
    /\ Returned("answer_question")
    /\ result.status = "llm_error"
    /\ Len(result.sources) = 2

\* C8: a question on a video_id without a collection returns status error
\* with the process-the-video-first reason after the collection lookup alone.
C8_MissingVideoIsError ==
    (IsCall("answer_question") /\ ~store[CollectionName(op.video_id)].exists) =>
        /\ outcome = "returned"
        /\ result.status = "error"
        /\ result.error = NotFoundReason
        /\ calls = <<Call("get_collection", FALSE)>>
        /\ query = NoQuery

\* C8 witness: the question was asked on an id that was ingested and deleted
\* (another collection is there).
C8_Witness ==
    /\ Returned("answer_question")
    /\ op.video_id = <<"a">>
    /\ ~store[CollectionName(<<"a">>)].exists
    /\ store[CollectionName(<<"video_", "a">>)].exists
    /\ result.status = "error"

\* C9: the store is asked for min(top_k, count) rows; with top_k above a
\* count of at least 1, a query that the store serves gives count sources.
C9_QueryClampedToCount ==
    (IsCall("answer_question") /\ Made("query", TRUE)) =>
        LET count == Count(store[CollectionName(op.video_id)])
        IN  /\ query.n_results = (IF top_k < count THEN top_k ELSE count)
            /\ query.n_results <= count
            /\ Len(query.rows) = query.n_results
            /\ (top_k > count /\ count >= 1) =>
                  /\ outcome = "returned"
                  /\ result.status \in {"success", "no_llm", "llm_error"}
                  /\ Len(result.sources) = count

\* C9 witness: top_k = 2 on a collection of one chunk.
C9_Witness ==
    /\ Returned("answer_question")
    /\ Made("query", TRUE)
    /\ top_k = 2
    /\ Count(store[CollectionName(op.video_id)]) = 1
    /\ Len(result.sources) = 1

HasSources == Returned("answer_question") /\ result.status \in {"success", "no_llm", "llm_error"}

\* C10: the sources are the retrieved rows in the store's order, each with
\* relevance_score = 1 - distance and the label Part chunk_index + 1, and the
\* relevance_score does not increase along the list.
C10_SourcesByDescendingRelevance ==
    HasSources =>
        /\ Len(result.sources) = Len(query.rows)
        /\ \A i \in 1..Len(query.rows) :
              /\ result.sources[i].relevance_score = 1 - query.rows[i].distance
              /\ result.sources[i].chunk_index = query.rows[i].metadata.chunk_index
              /\ result.sources[i].timestamp =
                    <<"Part ", ToString(query.rows[i].metadata.chunk_index + 1)>>
        /\ \A i \in 1..(Len(result.sources) - 1) :
              result.sources[i].relevance_score >= result.sources[i + 1].relevance_score

\* C10 witness: two sources, the second less relevant and from an earlier
\* part of the text than the first.
C10_Witness ==
    /\ HasSources
    /\ Len(result.sources) = 2
    /\ result.sources[1].relevance_score > result.sources[2].relevance_score
    /\ result.sources[1].chunk_index > result.sources[2].chunk_index

\* C11: a question on a collection that exists and holds no chunk, with the
\* question embedded and the store in service, returns no_context with the
\* fixed message and no sources, and does not raise.
C11_EmptyCollectionIsNoContext ==
    ( /\ IsCall("answer_question")
      /\ store[CollectionName(op.video_id)].exists
      /\ Count(store[CollectionName(op.video_id)]) = 0
      /\ Made("embed_text", TRUE)
      /\ ~(outcome = "raised" /\ result.raised_by = "query") ) =>
        /\ outcome = "returned"
        /\ result = [status |-> "no_context", answer |-> <<NO_CONTEXT_RESPONSE>>,
                     sources |-> <<>>]

\* C12: a collection exists only for a video_id whose ingestion has succeeded
\* since its last deletion.
C12_CollectionOnlyAfterSuccess ==
    \A v \in VideoIds : store[CollectionName(v)].exists => ingested[v] > 0

Listings == {"list_processed_videos", "list_available_videos"}

\* After delete_video(v) returned true and until v is processed again, a
\* question on v is answered with status error.
DeletedAnswersError(v) ==
    (op'.name = "answer_question" /\ op'.video_id = v) =>
        outcome' = "returned" /\ result'.status = "error"

\* ... a listing has no entry with video_id v.
DeletedNotListed(v) ==
    (op'.name \in Listings /\ outcome' = "returned") =>
        \A i \in 1..Len(result'.videos) : result'.videos[i].video_id # v

\* ... and a process_video of v whose collaborators serve it and whose
\* chunker returns chunks gives success, with the chunk count it stored.
DeletedIsProcessedAnew(v) ==
    ( /\ op'.name = "process_video"
      /\ ExtractVideoId(op'.video_url) = v
      /\ outcome' = "returned"
      /\ result'.status # "error" ) =>
        /\ result'.status = "success"
        /\ \E i \in 1..Len(calls') : calls'[i] = Call("add", TRUE)
        /\ result'.chunk_count = Count(store'[CollectionName(v)])
        /\ result'.chunk_count =
              (IF op'.chunk_size = 30 THEN 2 ELSE 1)

\* C14: after delete_video(id) returned true the video is not ingested: a
\* question on it gives status error, the listing omits it, and the next
\* process_video of it runs the pipeline and returns success with the chunk
\* count of the new call.
C14_DeletedIsNotIngested ==
    [][ \A v \in deleted :
          DeletedAnswersError(v) /\ DeletedNotListed(v) /\ DeletedIsProcessedAnew(v) ]_vars

\* What answer_question returns, from the store, the engine's settings, the
\* arguments and what the collaborators gave in this call.
AnswerOfThisCall ==
    LET collection == store[CollectionName(op.video_id)]
        rows == query.rows
        video_title == collection.metadata.video_title
    IN  outcome = "returned" =>
          IF ~collection.exists THEN result = NotFoundResult
          ELSE IF rows = <<>> THEN result = NoContextResult
          ELSE IF BackendUnavailable
          THEN result = NoLlmResult(Context(rows), Sources(rows), video_title, op.video_id)
          ELSE IF Made("ollama.generate", FALSE)
          THEN result = LlmErrorResult(GenerateError, Context(rows), Sources(rows),
                                       video_title, op.video_id)
          ELSE \E response \in Responses :
                  result = AnswerResult(response, Sources(rows), video_title, op.video_id)

\* C15: answer_question leaves the store and the engine's settings as they
\* are, and its result is given by the arguments, the settings, the store and
\* the collaborators' responses of this call: no earlier call enters it.
C15_AnswerQuestionStateless ==
    [][ op'.name = "answer_question" =>
          /\ store' = store
          /\ top_k' = top_k
          /\ OLLAMA_AVAILABLE' = OLLAMA_AVAILABLE
          /\ AnswerOfThisCall' ]_vars

\* C15 witness: a generated answer, from one of the two chunks held.
C15_Witness ==
    /\ Returned("answer_question")
    /\ result.status = "success"
    /\ op.question = <<"q">>
    /\ top_k = 1
    /\ Count(store[CollectionName(op.video_id)]) = 2
    /\ Len(result.sources) = 1

----------------------------------------------------------------------------
(* More claims about the chunker.                                          *)

IsBlank(s) == \A i \in 1..Len(s) : s[i] \in Whitespace

\* C16: every chunk is non-empty and neither begins nor ends with
\* whitespace, and a call on an empty or whitespace-only text returns no
\* chunk.
C16_ChunksStrippedNonEmpty ==
    /\ \A i \in 1..Len(chunks) :
          /\ chunks[i] # <<>>
          /\ chunks[i][1] \notin Whitespace
          /\ chunks[i][Len(chunks[i])] \notin Whitespace
    /\ (cpc = "done" /\ IsBlank(text)) => chunks = <<>>

\* C16 witness: a returned call on a text that begins and ends with
\* whitespace and has whitespace-only windows.
C16_Witness ==
    /\ cpc = "done"
    /\ Len(text) = MaxLen
    /\ text[1] = " " /\ text[2] = " " /\ text[Len(text)] = " "
    /\ chunk_size = 2
    /\ Len(chunks) = 2

\* C17: every chunk is at most chunk_size long.
C17_ChunkWithinSize ==
    \A i \in 1..Len(chunks) : Len(chunks[i]) <= chunk_size

\* C17 witness: a returned call with a chunk cut at a sentence end, shorter
\* than chunk_size, and one cut at the window edge, chunk_size long.
C17_Witness ==
    /\ cpc = "done"
    /\ Len(chunks) >= 2
    /\ Len(chunks[1]) < chunk_size
    /\ chunks[1][Len(chunks[1])] = "."
    /\ \E i \in 2..Len(chunks) :
          Len(chunks[i]) = chunk_size /\ \A j \in 1..chunk_size : chunks[i][j] = "a"

\* C18: with chunk_overlap = 0 the first span starts at 0, every iteration
\* takes a non-empty span [start, start') that begins where the one before
\* ended, appends that span stripped when something is left of it, and the
\* call returns when the spans have reached the end of the text.
C18_ZeroOverlapPartitions ==
    [][ chunk_overlap = 0 =>
          /\ cpc = "init" => start' = 0
          /\ cpc = "loop" =>
                /\ start < start' /\ start' <= Len(text)
                /\ LET chunk == Strip(SubSeq(text, start + 1, start'))
                   IN  chunks' = IF chunk = <<>> THEN chunks ELSE Append(chunks, chunk)
                /\ cpc' = "done" <=> start' = Len(text) ]_vars

\* C18 witness: a returned call without overlap, cut once at a sentence end
\* and twice at the window edge.
C18_Witness ==
    /\ cpc = "done"
    /\ chunk_overlap = 0
    /\ chunk_size = 3
    /\ text = <<"a", ".", " ", "a", "a", "a", "a">>
    /\ chunks = << <<"a", ".">>, <<"a", "a">>, <<"a", "a">> >>

\* C19: a call with chunk_overlap >= chunk_size returns.
C19_WideOverlapReturns == (chunk_overlap >= chunk_size) ~> (cpc = "done")

----------------------------------------------------------------------------
(* More claims about the pipeline.                                         *)

\* C20: a question that is the empty string is answered with status error,
\* and neither embedded nor passed to the store or the generative backend.
C20_EmptyQuestionIsError ==
    (IsCall("answer_question") /\ op.question = <<>>) =>
        /\ outcome = "returned"
        /\ result.status = "error"
        /\ \A i \in 1..Len(calls) :
              calls[i].call \notin {"embed_text", "query", "ollama.list", "ollama.generate"}

\* C21: within one process_video or answer_question no collaborator is
\* called twice.
C21_NoRetry ==
    op.name \in {"process_video", "answer_question"} =>
        \A i, j \in 1..Len(calls) : i # j => calls[i].call # calls[j].call

\* C21 witness: a process_video ended by the failure of its metadata fetch.
C21_Witness ==
    /\ Returned("process_video")
    /\ result.status = "error"
    /\ calls = <<Call("get_collection", FALSE), Call("get_video_info", FALSE)>>

----------------------------------------------------------------------------
(* The chunker on the example of a text of ExampleLen characters.          *)

Plain(t) ==
    \A i \in 1..(Len(t) - 1) :
        \A k \in 1..Len(Separators) : <<t[i], t[i + 1]>> # Separators[k]

----------------------------------------------------------------------------
(* Claims about the derivation of the video id.                            *)

\* The k-th URL shape, in the order watch?v= or youtu.be/, /embed/, /v/,
\* occurs in url.
ShapeIn(url, k) ==
    LET shapes == << { <<"youtube.com/", "watch", "?", "v=">>, <<"youtu.be/">> },
                     { <<"youtube.com/", "embed/">> },
                     { <<"youtube.com/", "v/">> } >>
    IN  \E i \in 1..Len(url) : \E shape \in shapes[k] :
           /\ i + Len(shape) - 1 <= Len(url)
           /\ \A j \in 1..Len(shape) : url[i + j - 1] = shape[j]

\* C23: _extract_video_id returns what the first of the three shapes that
\* occurs in the url captures, and the url itself when none occurs.
C23_FirstShapeWins ==
    op.name = "_extract_video_id" =>
        /\ outcome = "returned"
        /\ \A k \in 1..3 :
              (ShapeIn(op.url, k) /\ \A j \in 1..(k - 1) : ~ShapeIn(op.url, j)) =>
                  result.value = CaptureOf(op.url, k)
        /\ (\A k \in 1..3 : ~ShapeIn(op.url, k)) => result.value = op.url

\* C23 witness: a url in which the /embed/ shape occurs before the youtu.be/
\* shape, with the id taken from the latter.
C23_Witness ==
    /\ op.name = "_extract_video_id"
    /\ op.url = <<"youtube.com/", "embed/", "youtu.be/", "a">>
    /\ result.value = <<"a">>

----------------------------------------------------------------------------
(* Claims about the chunker's start pointer and cut positions.             *)

\* C24: in the loop start is never negative and every iteration raises it.
C24_StartAdvances ==
    [][ cpc = "loop" => (start >= 0 /\ start' >= 0 /\ start' > start) ]_vars

\* The indices in the window [st, st + size) at which one of the five
\* sentence-terminal patterns lies wholly inside the window.
TerminalsIn(t, st, size) ==
    {i \in st..(st + size - 2) :
        \E k \in 1..Len(Separators) :
            t[i + 1] = Separators[k][1] /\ t[i + 2] = Separators[k][2]}

\* C25: a window that does not reach the end of the text is cut just after
\* the right-most sentence-terminal pattern in it, whichever of the five it
\* is, and at the window edge when the window holds none.
C25_CutAfterRightmostTerminal ==
    [][ (/\ cpc = "loop" /\ Len(chunks) < MaxChunks
         /\ start >= 0 /\ start + chunk_size < Len(text)) =>
          LET found == TerminalsIn(text, start, chunk_size)
              cut == IF found # {} THEN SetMax(found) + 1 ELSE start + chunk_size
          IN  /\ start' = cut - chunk_overlap
              /\ chunks' = AppendChunk(chunks, text, start, cut) ]_vars

----------------------------------------------------------------------------
(* Claims about the steps of process_video.                                *)

StepOrder ==
    <<"get_collection", "get_video_info", "get_transcript", "_chunk_text",
      "embed_batch", "get_or_create_collection", "add">>

\* C26: process_video makes its steps in the fixed order; already_exists ends
\* the call after the existence check; a fetch, chunk or embed step that
\* fails is the last step made and the call returns status error.
C26_StepsInOrder ==
    IsCall("process_video") =>
        /\ Len(calls) <= Len(StepOrder)
        /\ \A i \in 1..Len(calls) : calls[i].call = StepOrder[i]
        /\ (outcome = "returned" /\ result.status = "already_exists") => Len(calls) = 1
        /\ \A i \in 2..Len(calls) :
              ~calls[i].ok =>
                  /\ i = Len(calls)
                  /\ calls[i].call \in {"get_video_info", "get_transcript",
                                        "_chunk_text", "embed_batch"} =>
                          (outcome = "returned" /\ result.status = "error")

\* C27: a collection that holds records holds n of them with the ids
\* chunk_0 .. chunk_(n-1) in this order, chunk_index running from 0 to n-1,
\* total_chunks = n and no blank text; a process_video that returns success
\* reports n as chunk_count and has stored the chunker's output in its order.
C27_StoredChunksNumbered ==
    /\ \A name \in Names :
          LET c == store[name]
              n == Count(c)
          IN  n > 0 =>
                /\ Len(c.documents) = n /\ Len(c.metadatas) = n
                /\ \A i \in 1..n :
                      /\ c.ids[i] = <<"chunk_", ToString(i - 1)>>
                      /\ c.metadatas[i].chunk_index = i - 1
                      /\ c.metadatas[i].total_chunks = n
                      /\ ~IsBlank(c.documents[i])
                /\ \A i, j \in 1..n : c.ids[i] = c.ids[j] => i = j
    /\ (Returned("process_video") /\ result.status = "success") =>
          LET c == store[result.collection_name]
          IN  /\ result.chunk_count = Count(c)
              /\ result.chunk_count > 0
              /\ \E text_content \in Descriptions :
                    LET cut == Chunked[text_content, <<op.chunk_size, op.chunk_overlap>>]
                    IN  cut.returns /\ c.documents = cut.chunks

\* C27 witness: a process_video that returned success with two chunks, stored
\* as chunk_0 and chunk_1.
C27_Witness ==
    /\ Returned("process_video")
    /\ result.status = "success"
    /\ result.chunk_count = 2
    /\ store[result.collection_name].ids = << <<"chunk_", "0">>, <<"chunk_", "1">> >>
    /\ store[result.collection_name].metadatas[2].chunk_index = 1

----------------------------------------------------------------------------
(* Claims about a successful answer.                                       *)

\* a is r without the whitespace at its two ends.
TrimOf(a, r) ==
    \E i \in 1..(Len(r) + 1) : \E j \in 0..Len(r) :
        /\ a = SubSeq(r, i, j)
        /\ \A k \in 1..Len(r) : (k < i \/ k > j) => r[k] \in Whitespace
        /\ a # <<>> => (a[1] \notin Whitespace /\ a[Len(a)] \notin Whitespace)

\* C28: answer_question has status success only when the collection exists,
\* rows were retrieved, the probe succeeded and generate returned, and the
\* answer is the generated text trimmed; generate is called only after a
\* successful probe, on an existing collection with rows retrieved.
C28_SuccessNeedsAll ==
    IsCall("answer_question") =>
        /\ (outcome = "returned" /\ result.status = "success") =>
              /\ store[CollectionName(op.video_id)].exists
              /\ query.rows # <<>>
              /\ Made("ollama.list", TRUE)
              /\ Made("ollama.generate", TRUE)
              /\ \E response \in Responses : TrimOf(result.answer, response)
        /\ \A j \in 1..Len(calls) :
              calls[j].call = "ollama.generate" =>
                  /\ \E i \in 1..(j - 1) : calls[i] = Call("ollama.list", TRUE)
                  /\ ~Made("ollama.list", FALSE)
                  /\ OLLAMA_AVAILABLE
                  /\ store[CollectionName(op.video_id)].exists
                  /\ query.rows # <<>>

\* C28 witness: a success whose generated text had whitespace at both ends.
C28_Witness ==
    /\ Returned("answer_question")
    /\ result.status = "success"
    /\ result.answer = <<"o", "k">>
    /\ calls[Len(calls)] = Call("ollama.generate", TRUE)

----------------------------------------------------------------------------
(* Claims about the listings' identifiers.                                 *)

\* The chunk count of a listing entry: chunk_count in list_processed_videos,
\* chunks in list_available_videos.
EntryCount(e) == IF "chunk_count" \in DOMAIN e THEN e.chunk_count ELSE e.chunks

\* C29: a listing has, for every ingested video_id, exactly one entry with
\* that video_id and the stored chunk count, and every listed video_id names
\* the collection the entry was made from.
C29_ListingRoundTrips ==
    (op.name \in Listings /\ outcome = "returned") =>
        /\ \A v \in VideoIds :
              ingested[v] > 0 =>
                  \E i \in 1..Len(result.videos) :
                     /\ result.videos[i].video_id = v
                     /\ EntryCount(result.videos[i]) = Count(store[CollectionName(v)])
                     /\ \A j \in 1..Len(result.videos) :
                           result.videos[j].video_id = v => j = i
        /\ \A i \in 1..Len(result.videos) :
              LET listed == result.videos[i].video_id
              IN  /\ CollectionName(listed) \in Names
                  /\ store[CollectionName(listed)].exists
                  /\ EntryCount(result.videos[i]) = Count(store[CollectionName(listed)])

----------------------------------------------------------------------------
(* Claims about the app session.                                           *)

\* C30: every exchange in chat_history was asked of the current video: the
\* history is empty after every change of current_video_id, and it grows
\* only by an answer of status success, no_llm or llm_error.
C30_ChatAboutCurrentVideo ==
    [][ /\ \A i \in 1..Len(chat_history') :
              chat_history'[i].video_id = current_video_id'
        /\ current_video_id' # current_video_id => chat_history' = <<>>
        /\ Len(chat_history') > Len(chat_history) =>
              /\ outcome' = "returned"
              /\ result'.status \in {"success", "no_llm", "llm_error"} ]_vars

====
